---- MODULE Spec2Model ----
(***************************************************************************)
(* Model of the jump manager of coc-smartf (src/src/manager.ts).           *)
(*                                                                         *)
(* One Manager object, one editor (the host).  Every call of jump() is a   *)
(* "session" with its own locals; the Manager's fields are shared by all   *)
(* sessions.  Code between two awaits is one atomic action; every await of *)
(* a host round trip is a suspension point at which other handlers run.    *)
(* The host executes requests in the order they are sent, so the effect of *)
(* a request on the host is taken at the moment it is sent.                *)
(***************************************************************************)
EXTENDS Integers, Sequences, FiniteSets, TLC

\* Number of jump() calls in a behaviour whose calls may overlap.
MaxJumps == 2
\* Number of jump() calls in a behaviour in which an entry point is called only
\* while no other call is in progress.
MaxChain == 3

\* "no value": undefined position / undefined Character entry.
Undef == <<>>
\* "no value" for the stored search character (this.character before any jump).
NoChar == ""
\* the key a synthetic escape produces
Esc == "ESC"
\* result slot of a batched call that returns nothing (the doautocmd command)
Nil == <<0, 0>>

\* src/src/manager.ts:4-7
characters ==
  << "a", "b", "c", "d", "e", "f", "g", "h", "i", "j", "k", "l", "m", "n", "o", "p", "q", "r",
     "s", "t", "u", "v", "w", "x", "y", "z", "1", "2", "3", "4", "5", "6", "7", "8", "9", "0",
     ",", "." >>

(***************************************************************************)
(* The editor buffer.  A line is a sequence of characters (one UTF-16 code *)
(* unit each); "é" takes two bytes in UTF-8, every other character one.    *)
(***************************************************************************)
\* n words "o" separated by single blanks
Words(n) == [ i \in 1 .. (2 * n - 1) |-> IF i % 2 = 1 THEN "o" ELSE " " ]

\* line 1: "xo ox"   line 2: "o o o ... o" (as many words as labels)   line 3: "éo x ox o"
Buffer ==
  << << "x", "o", " ", "o", "x" >>,
     Words(Len(characters)),
     << "é", "o", " ", "x", " ", "o", "x", " ", "o" >> >>

ByteLen(c) == IF c = "é" THEN 2 ELSE 1

\* JavaScript String.prototype.slice(0, n) on a line
Slice(content, n) == SubSeq(content, 1, IF n < Len(content) THEN n ELSE Len(content))

\* Buffer.byteLength(s): every character is one byte, "é" one byte more
ByteLength(s) == Len(s) + Cardinality({ i \in 1 .. Len(s) : ByteLen(s[i]) = 2 })

\* function byteIndex(content, index)
byteIndex(content, index) == ByteLength(Slice(content, index))

\* coc#util#cursor(): [line('.') - 1, number of characters before the cursor]
CharsBefore(content, bytes) ==
  Cardinality({ i \in 1 .. Len(content) : ByteLength(SubSeq(content, 1, i - 1)) < bytes })

CocCursor(pos) == << pos[1] - 1, CharsBefore(Buffer[pos[1]], pos[2] - 1) >>

\* the list left in scan order
NotReversed(s) == s

\* Array.prototype.reverse
Reverse(s) == [ i \in 1 .. Len(s) |-> s[Len(s) + 1 - i] ]

(***************************************************************************)
(* Position Finder (./util getPositions): every occurrence of the search   *)
(* character, line by line, left to right; the offset applies to the first *)
(* line only; with the word-boundary flag only occurrences at a word start *)
(* (first column, or preceded by a blank).                                 *)
(***************************************************************************)
IsWordStart(line, j) == j = 0 \/ line[j] = " "

ScanLine(character, line, i, start, wj) ==
  LET Hit(p) == /\ p.character >= start
                /\ line[p.character + 1] = character
                /\ (~wj \/ IsWordStart(line, p.character))
  IN  SelectSeq([ j \in 1 .. Len(line) |-> [ line |-> i, character |-> j - 1 ] ], Hit)

RECURSIVE ScanLines(_, _, _, _, _)
ScanLines(character, lines, i, wj, offset) ==
  IF i >= Len(lines) THEN <<>>
  ELSE ScanLine(character, lines[i + 1], i, IF i = 0 THEN offset ELSE 0, wj)
       \o ScanLines(character, lines, i + 1, wj, offset)

getPositions(character, lines, wj, offset) == ScanLines(character, lines, 0, wj, offset)

(***************************************************************************)
(* State.                                                                  *)
(***************************************************************************)
VARIABLES
  jumpOnTrigger,   \* this.jumpOnTrigger (configuration, read once)
  wordJump,        \* this.wordJump      (configuration, read once)
  w0,              \* host: first visible line, line('w0'); line 1 is scrolled off
  hostCursor,      \* host: cursor as <<line, byte column>>, both 1-based
  rendered,        \* host: the marker handles that are on screen
  lastUser,        \* host: the last User autocommand event that was fired
  matchIds,        \* this.matchIds
  positionMap,     \* this.positionMap: label -> Character
  character,       \* this.character
  isForward,       \* this.isForward
  repeatPosition,  \* this.repeatPosition
  ses,             \* the locals of every jump() / getCharacter() call
  serial           \* the behaviour calls entry points one after the other

vars == << jumpOnTrigger, wordJump, w0, hostCursor, rendered, lastUser, matchIds, positionMap,
           character, isForward, repeatPosition, ses, serial >>

Sessions == 1 .. (IF MaxChain > MaxJumps THEN MaxChain ELSE MaxJumps)

\* search characters the user may type at the prompt
SearchChars == { "o", "x" }
\* keys the label key capture may return
Keys == { "a", ";", Esc }
\* where a marker batch may fail: 0 = nowhere, k = at its k-th call (1 = at the
\* session-entered event, 3 = at the second marker)
FailPoints == { 0, 1, 3 }

EmptyMap == [ k \in {} |-> Undef ]

Range(f) == { f[x] : x \in DOMAIN f }

Call(op, arg) == [ op |-> op, arg |-> arg ]

FreshSession ==
  [ pc |-> "free", fwd |-> TRUE, ch |-> NoChar, cursor |-> Undef,
    positions |-> <<>>, currpos |-> Undef, tbl |-> EmptyMap, remains |-> <<>>,
    ids |-> <<>>, err |-> FALSE, finished |-> FALSE, timer |-> "off", val |-> Undef,
    old |-> {} ]

(***************************************************************************)
(* jump(), lines 61-76: what the read batch returned and the directional   *)
(* sub-range.  cursor is the 0-based [line, character] of coc#util#cursor. *)
(***************************************************************************)
VisibleLines == SubSeq(Buffer, w0, Len(Buffer))

CurrLine(cursor) == Buffer[cursor[1] + 1]

\* lines 69-76: the lines handed to getPositions
SubLines(fwd, cursor) ==
  IF ~fwd
    THEN LET count == cursor[1] - (w0 - 1) + 1
             cut   == SubSeq(VisibleLines, 1, count)
         IN  [ cut EXCEPT ![Len(cut)] = Slice(CurrLine(cursor), cursor[2]) ]
    ELSE SubSeq(VisibleLines, cursor[1] - (w0 - 1) + 1, Len(VisibleLines))

\* lines 67, 74
Offset(fwd, cursor) == IF ~fwd THEN 0 ELSE cursor[2] + 1

\* lines 77-79: the candidates in label order
Candidates(fwd, c, cursor) ==
  LET found == getPositions(c, SubLines(fwd, cursor), wordJump, Offset(fwd, cursor))
  IN  IF ~fwd THEN Reverse(found) ELSE found

\* lines 84-85 and 98-99: a candidate as the host's <<line, column>>
AbsPos(fwd, cursor, pos) ==
  << w0 + pos.line + (IF fwd THEN cursor[1] + 1 - w0 ELSE 0),
     byteIndex(SubLines(fwd, cursor)[pos.line + 1], pos.character) + 1 >>

(***************************************************************************)
(* jump(), lines 93-106: the label assignment loop.                        *)
(***************************************************************************)
\* a loop that stops handing out labels one symbol early
LabelAtShort(i) == IF i + 1 < Len(characters) THEN characters[i + 1] ELSE NoChar

\* line 97: characters[i], undefined past the end of the alphabet
LabelAt(i) == IF i < Len(characters) THEN characters[i + 1] ELSE NoChar

\* the loop indices whose ch is defined (line 100) / undefined (line 102)
Labelled(positions) == { i \in 0 .. Len(positions) - 1 : LabelAt(i) # NoChar }

Overflow(positions) ==
  SelectSeq([ j \in 1 .. Len(positions) |-> j - 1 ], LAMBDA i : LabelAt(i) = NoChar)

\* this.positionMap after the loop
AssignMap(fwd, cursor, positions) ==
  [ ch \in { LabelAt(i) : i \in Labelled(positions) } |->
      LET i == CHOOSE i \in Labelled(positions) : LabelAt(i) = ch
      IN  [ character |-> ch, position |-> AbsPos(fwd, cursor, positions[i + 1]) ] ]

\* remains after the loop
AssignRemains(fwd, cursor, positions) ==
  LET over == Overflow(positions)
  IN  [ j \in 1 .. Len(over) |-> AbsPos(fwd, cursor, positions[over[j] + 1]) ]

\* line 106: remains[0]
FirstOf(remains) == IF remains = <<>> THEN Undef ELSE remains[1]

(***************************************************************************)
(* jump(), lines 108-120: the marker batch, in the order it is queued.     *)
(***************************************************************************)
\* this.positionMap.values(): insertion order, which is the order of characters
LabelMarkers(map) ==
  LET keys == SelectSeq(characters, LAMBDA ch : ch \in DOMAIN map)
  IN  [ i \in 1 .. Len(keys) |->
          Call("matchaddpos", << "Conceal", map[keys[i]].position, map[keys[i]].character >>) ]

RemainMarkers(remains) ==
  [ i \in 1 .. Len(remains) |-> Call("matchaddpos", << "Conceal", remains[i], ";" >>) ]

MarkerBatch(map, currpos, remains) ==
  << Call("command", << "doautocmd User SmartfEnter" >>) >>
  \o LabelMarkers(map)
  \o << Call("matchaddpos", << "Cursor", currpos >>) >>
  \o RemainMarkers(remains)

\* the calls of a batch the host executed when the batch fails at failAt
Executed(batch, failAt) == IF failAt = 0 THEN batch ELSE SubSeq(batch, 1, failAt - 1)

\* handle of the marker made by the i-th call of session s's batch
Handle(s, i) == << s, i >>

\* result[0] of the marker batch: one slot per executed call
BatchIds(s, n) == [ i \in 1 .. n |-> IF i = 1 THEN Nil ELSE Handle(s, i) ]

(***************************************************************************)
(* The host.  A handler issues a list of calls; the host runs them in      *)
(* order.  Only the cursor and the markers on screen are followed.         *)
(***************************************************************************)
\* the cursor after the calls cs; cursor(undefined) is an error and moves nothing
HostCursor(cur, cs) ==
  LET moves == SelectSeq(cs, LAMBDA c : c.op = "cursor" /\ c.arg # Undef)
  IN  IF Len(moves) = 0 THEN cur ELSE moves[Len(moves)].arg

\* the markers on screen after the calls cs of session s: the i-th call of a marker
\* batch makes the marker Handle(s, i)
HostRendered(shown, cs, s) ==
  LET gone == UNION { Range(cs[i].arg) : i \in { j \in DOMAIN cs : cs[j].op = "coc#util#clearmatches" } }
      made == { Handle(s, i) : i \in { j \in DOMAIN cs : cs[j].op = "matchaddpos" } }
  IN  (shown \ gone) \cup made

\* the session-entered / session-left notification of the calls cs
Entered(cs) == \E i \in DOMAIN cs : cs[i] = Call("command", << "doautocmd User SmartfEnter" >>)

Left(cs) == \E i \in DOMAIN cs : cs[i] = Call("command", << "doautocmd User SmartfLeave" >>)

\* the last User event after the calls cs; no handler sends both events
HostUser(ev, cs) ==
  IF Left(cs) THEN "SmartfLeave" ELSE IF Entered(cs) THEN "SmartfEnter" ELSE ev

(***************************************************************************)
(* cancel(), lines 152-161.  The clear batch is queued and sent, and       *)
(* this.matchIds is emptied, before the await.                             *)
(***************************************************************************)
CancelCalls(ids) ==
  IF Len(ids) = 0 THEN <<>>
  ELSE << Call("setVar", << "coc_smartf_activated", 0 >>),
          Call("command", << "doautocmd User SmartfLeave" >>),
          Call("coc#util#clearmatches", ids) >>

\* a cancel() that keeps the handles it has cleared
CancelIdsKept(ids) == ids

\* this.matchIds after cancel()
CancelIds(ids) == <<>>

\* this.positionMap after cancel()
CancelMap(map) == map

(***************************************************************************)
(* jump(), lines 47-56: the synchronous head of jump() up to the first     *)
(* await.  The reads of the batch see the host as it is when it is sent.   *)
(***************************************************************************)
ReadBatch ==
  << Call("coc#util#cursor", <<>>), Call("line", << "w0" >>), Call("getline", << "." >>),
     Call("eval", << "getline(line('w0'), line('w$'))" >>),
     Call("command", << "setl conceallevel=2" >>) >>

\* a jump() that ignores the character it is given
JumpHeadAsk(fwd, c, cur, awaiting) ==
  [ FreshSession EXCEPT !.pc = "read", !.fwd = fwd, !.ch = NoChar, !.cursor = CocCursor(cur),
                        !.old = awaiting ]

JumpHead(fwd, c, cur, awaiting) ==
  [ FreshSession EXCEPT !.pc = "read", !.fwd = fwd, !.ch = c, !.cursor = CocCursor(cur),
                        !.old = awaiting ]

\* a call whose handlers have all returned: its locals are gone; a timer that has not
\* run yet and the flag its callback reads live on
Returned(r) ==
  [ FreshSession EXCEPT !.pc = "done", !.finished = r.finished,
                        !.timer = IF r.timer = "armed" THEN "armed" ELSE "off" ]

\* this.positionMap after line 49
JumpMap(map) == EmptyMap

\* the sessions a behaviour may use, and the next unused one
Slots == 1 .. (IF serial THEN MaxChain ELSE MaxJumps)

FreeSlot == { s \in Slots : ses[s].pc = "free" /\ \A t \in Slots : t < s => ses[t].pc # "free" }

\* the sessions whose label key capture is pending and whose timer has not run
Awaiting == { s \in Sessions : ses[s].pc = "await" /\ ses[s].timer = "armed" }

\* no call of jump() or getCharacter() is in progress
Quiet == \A s \in Sessions : ses[s].pc \in { "free", "done" }

Init ==
  /\ jumpOnTrigger \in BOOLEAN
  /\ wordJump \in BOOLEAN
  /\ w0 = Len(Buffer) - 1
  /\ hostCursor \in { << w0, 1 >>, << Len(Buffer), ByteLength(Buffer[Len(Buffer)]) >> }
  /\ rendered = {}
  /\ lastUser = "none"
  /\ matchIds = <<>>
  /\ positionMap = EmptyMap
  /\ character = NoChar
  /\ isForward = TRUE
  /\ repeatPosition = Undef
  /\ ses = [ s \in Sessions |-> FreshSession ]
  /\ serial \in BOOLEAN

Config == << jumpOnTrigger, wordJump, w0, serial >>

\* forward(), backward(), repeat(), repeatOpposite(): lines 31-45, then jump() to line 56
Invoke(fwd, c) ==
  \E s \in FreeSlot :
    /\ serial => Quiet
    /\ ses' = [ ses EXCEPT ![s] = JumpHead(fwd, c, hostCursor, Awaiting) ]
    /\ positionMap' = JumpMap(positionMap)
    /\ UNCHANGED << Config, hostCursor, rendered, lastUser, matchIds, character, isForward,
                    repeatPosition >>

forward == Invoke(TRUE, NoChar)

backward == Invoke(FALSE, NoChar)

repeat == Invoke(isForward, character)

repeatOpposite == Invoke(~isForward, character)

(***************************************************************************)
(* jump(), lines 67-91: from the known search character to the await of    *)
(* the cursor call (jumpOnTrigger) or of getpos.                           *)
(***************************************************************************)
\* the first candidate read but left in the list
NotShifted(positions) == positions

\* lines 82-83: what positions.shift() leaves
Shifted(positions) == Tail(positions)

\* a scan that goes on to read the cursor when it found nothing
ScannedOn(r, c, cur) ==
  LET found == Candidates(r.fwd, c, r.cursor)
  IN  IF Len(found) = 0
        THEN [ r EXCEPT !.pc = "move", !.ch = c, !.positions = found, !.currpos = cur ]
      ELSE IF jumpOnTrigger
        THEN [ r EXCEPT !.pc = "move", !.ch = c, !.positions = Shifted(found),
                        !.currpos = AbsPos(r.fwd, r.cursor, found[1]) ]
        ELSE [ r EXCEPT !.pc = "move", !.ch = c, !.positions = found, !.currpos = cur ]

Scanned(r, c, cur) ==
  LET found == Candidates(r.fwd, c, r.cursor)
  IN  IF Len(found) = 0 THEN Returned(r)
      ELSE IF jumpOnTrigger
        THEN [ r EXCEPT !.pc = "move", !.ch = c, !.positions = Shifted(found),
                        !.currpos = AbsPos(r.fwd, r.cursor, found[1]) ]
        ELSE [ r EXCEPT !.pc = "move", !.ch = c, !.positions = found, !.currpos = cur ]

ScanCalls(r) ==
  IF r.pc # "move" THEN <<>>
  ELSE IF jumpOnTrigger THEN << Call("cursor", r.currpos) >>
  ELSE << Call("getpos", << "." >>) >>

\* the calls issued when the read batch is answered, lines 56-91
ReadDoneCalls(s, err) ==
  IF err THEN << Call("showMessage", << "error" >>) >>
  ELSE IF ses[s].ch = NoChar THEN << Call("coc#list#getchar", <<>>) >>
  ELSE ScanCalls(Scanned(ses[s], ses[s].ch, hostCursor))

\* lines 56-66, read batch answered: error message, prompt, or straight to the scan
ReadDone(s, err) ==
  /\ ses[s].pc = "read"
  /\ ses' = [ ses EXCEPT ![s] =
                IF err THEN Returned(ses[s])
                ELSE IF ses[s].ch = NoChar THEN [ ses[s] EXCEPT !.pc = "prompt" ]
                ELSE Scanned(ses[s], ses[s].ch, hostCursor) ]
  /\ hostCursor' = HostCursor(hostCursor, ReadDoneCalls(s, err))
  /\ UNCHANGED << Config, rendered, lastUser, matchIds, positionMap, character, isForward,
                  repeatPosition >>

\* the calls issued when the prompt is answered with c
PromptDoneCalls(s, c) == ScanCalls(Scanned(ses[s], c, hostCursor))

\* lines 63-91, the prompt answered with c
PromptDone(s, c) ==
  /\ ses[s].pc = "prompt"
  /\ isForward' = ses[s].fwd
  /\ character' = c
  /\ ses' = [ ses EXCEPT ![s] = Scanned(ses[s], c, hostCursor) ]
  /\ hostCursor' = HostCursor(hostCursor, PromptDoneCalls(s, c))
  /\ UNCHANGED << Config, rendered, lastUser, matchIds, positionMap, repeatPosition >>

(***************************************************************************)
(* jump(), lines 92-120: labels, remainder, repeat position and the marker *)
(* batch.  The host executes the batch up to its first failing call.       *)
(***************************************************************************)
MoveDoneCalls(s, failAt) ==
  LET r == ses[s]
  IN  IF Len(r.positions) = 0 THEN <<>>
      ELSE Executed(MarkerBatch(AssignMap(r.fwd, r.cursor, r.positions), r.currpos,
                                AssignRemains(r.fwd, r.cursor, r.positions)), failAt)

MoveDone(s, failAt) ==
  /\ ses[s].pc = "move"
  /\ IF Len(ses[s].positions) = 0
       THEN /\ failAt = 0
            /\ ses' = [ ses EXCEPT ![s] = Returned(ses[s]) ]
            /\ UNCHANGED << positionMap, repeatPosition, rendered >>
       ELSE LET r       == ses[s]
                map     == AssignMap(r.fwd, r.cursor, r.positions)
                remains == AssignRemains(r.fwd, r.cursor, r.positions)
                done    == MoveDoneCalls(s, failAt)
            IN  /\ positionMap' = map
                /\ repeatPosition' = FirstOf(remains)
                /\ rendered' = HostRendered(rendered, done, s)
                /\ ses' = [ ses EXCEPT ![s].pc = "render", ![s].tbl = map,
                                       ![s].remains = remains,
                                       ![s].ids = BatchIds(s, Len(done)),
                                       ![s].err = (failAt # 0) ]
  /\ lastUser' = HostUser(lastUser, MoveDoneCalls(s, failAt))
  /\ UNCHANGED << Config, hostCursor, matchIds, character, isForward >>

(***************************************************************************)
(* jump(), lines 120-126 and getCharacter(), lines 129-137: the marker     *)
(* batch answered; the handles are stored, the key capture is requested    *)
(* and the timer is started.                                               *)
(***************************************************************************)
RenderDoneCalls(s) == IF ses[s].err THEN <<>> ELSE << Call("coc#list#getchar", <<>>) >>

RenderDone(s) ==
  /\ ses[s].pc = "render"
  /\ IF ses[s].err
       THEN /\ ses' = [ ses EXCEPT ![s] = Returned(ses[s]) ]
            /\ UNCHANGED matchIds
       ELSE /\ matchIds' = ses[s].ids
            /\ ses' = [ ses EXCEPT ![s].pc = "await", ![s].finished = FALSE,
                                   ![s].timer = "armed" ]
  /\ UNCHANGED << Config, hostCursor, rendered, lastUser, positionMap, character, isForward,
                  repeatPosition >>

(***************************************************************************)
(* getCharacter(), lines 137-149.  The key capture is answered with key.   *)
(* await this.cancel() suspends only when cancel() has a batch in flight;  *)
(* when this.matchIds is empty the rest runs in the same turn.             *)
(***************************************************************************)
\* the timer callback of the call has run past its finished test
TimedOut(r) == r.timer = "fired"

\* line 139: the test of the repeat branch
IsRepeat(key, rp) == key = ";" /\ rp # Undef

\* line 146: this.positionMap.get(ch), as the position of the entry
GetPosition(map, key) == IF key \in DOMAIN map THEN map[key].position ELSE Undef

\* the direction handed to the follow-up jump, line 142
RepeatDirection(r) == isForward

\* lines 141-142: cursor to the repeat position, then jump() up to its first await
RepeatCalls == << Call("cursor", repeatPosition) >> \o ReadBatch

RepeatTail(s, n) ==
  /\ hostCursor' = HostCursor(hostCursor, RepeatCalls)
  /\ ses' = [ ses EXCEPT ![s] = Returned([ ses[s] EXCEPT !.finished = TRUE ]),
                         ![n] = JumpHead(RepeatDirection(ses[s]), character, hostCursor',
                                         Awaiting \ { s }) ]
  /\ positionMap' = JumpMap(positionMap)

\* line 148: if (val) cursor(val.position)
ValueCalls(val) == IF val = Undef THEN <<>> ELSE << Call("cursor", val) >>

ValueTail(s, val) ==
  /\ hostCursor' = HostCursor(hostCursor, ValueCalls(val))
  /\ ses' = [ ses EXCEPT ![s] = Returned([ ses[s] EXCEPT !.finished = TRUE ]) ]

\* the calls issued in the turn that receives key
CaptureCalls(s, key) ==
  IF Len(matchIds) # 0 THEN CancelCalls(matchIds)
  ELSE IF IsRepeat(key, repeatPosition) THEN RepeatCalls
  ELSE ValueCalls(GetPosition(positionMap, key))

Capture(s, key) ==
  /\ ses[s].pc = "await"
  /\ IF IsRepeat(key, repeatPosition)
       THEN IF Len(matchIds) # 0
         THEN /\ ses' = [ ses EXCEPT ![s].pc = "cancelR", ![s].finished = TRUE ]
              /\ rendered' = HostRendered(rendered, CancelCalls(matchIds), s)
              /\ matchIds' = CancelIds(matchIds)
              /\ positionMap' = CancelMap(positionMap)
              /\ UNCHANGED hostCursor
         ELSE \E n \in FreeSlot :
              /\ RepeatTail(s, n)
              /\ UNCHANGED << rendered, matchIds >>
       ELSE LET val == GetPosition(positionMap, key)
            IN  /\ positionMap' = CancelMap(positionMap)
                /\ IF Len(matchIds) # 0
                     THEN /\ ses' = [ ses EXCEPT ![s].pc = "cancelV", ![s].finished = TRUE,
                                                 ![s].val = val ]
                          /\ rendered' = HostRendered(rendered, CancelCalls(matchIds), s)
                          /\ matchIds' = CancelIds(matchIds)
                          /\ UNCHANGED hostCursor
                     ELSE /\ ValueTail(s, val)
                          /\ UNCHANGED << rendered, matchIds >>
  /\ lastUser' = HostUser(lastUser, CaptureCalls(s, key))
  /\ UNCHANGED << Config, character, isForward, repeatPosition >>

\* the calls issued when the clear batch of lines 140 / 147 is answered
CancelDoneCalls(s) == IF ses[s].pc = "cancelR" THEN RepeatCalls ELSE ValueCalls(ses[s].val)

\* the clear batch of lines 140 / 147 answered: lines 141-142 or line 148
CancelDone(s) ==
  /\ ses[s].pc \in { "cancelR", "cancelV" }
  /\ IF ses[s].pc = "cancelR"
       THEN \E n \in FreeSlot : RepeatTail(s, n)
       ELSE /\ ValueTail(s, ses[s].val)
            /\ UNCHANGED positionMap
  /\ UNCHANGED << Config, rendered, lastUser, matchIds, character, isForward, repeatPosition >>

(***************************************************************************)
(* getCharacter(), lines 132-136: the timer callback.                      *)
(***************************************************************************)
\* a callback that does not look at the flag
NeverDefused(r) == FALSE

\* line 133: the callback returns at once
Defused(r) == r.finished

TimeoutCalls(s) ==
  IF Defused(ses[s]) THEN <<>>
  ELSE << Call("command", << "call feedkeys(<esc>, 'in')" >>) >> \o CancelCalls(matchIds)

Timeout(s) ==
  /\ ses[s].timer = "armed"
  /\ IF Defused(ses[s])
       THEN /\ ses' = [ ses EXCEPT ![s].timer = "off" ]
            /\ UNCHANGED << rendered, matchIds, positionMap >>
       ELSE /\ ses' = [ ses EXCEPT ![s].timer = "fired" ]
            /\ rendered' = HostRendered(rendered, TimeoutCalls(s), s)
            /\ matchIds' = CancelIds(matchIds)
            /\ positionMap' = CancelMap(positionMap)
  /\ lastUser' = HostUser(lastUser, TimeoutCalls(s))
  /\ UNCHANGED << Config, hostCursor, character, isForward, repeatPosition >>

\* cancel() called from outside, lines 152-161
cancel ==
  /\ rendered' = HostRendered(rendered, CancelCalls(matchIds), 0)
  /\ matchIds' = CancelIds(matchIds)
  /\ positionMap' = CancelMap(positionMap)
  /\ lastUser' = HostUser(lastUser, CancelCalls(matchIds))
  /\ UNCHANGED << Config, hostCursor, character, isForward, repeatPosition, ses >>

Next ==
  \/ forward
  \/ backward
  \/ repeat
  \/ repeatOpposite
  \/ \E s \in Sessions, err \in BOOLEAN : ReadDone(s, err)
  \/ \E s \in Sessions, c \in SearchChars : PromptDone(s, c)
  \/ \E s \in Sessions, failAt \in FailPoints : MoveDone(s, failAt)
  \/ \E s \in Sessions : RenderDone(s)
  \/ \E s \in Sessions, key \in Keys : Capture(s, key)
  \/ \E s \in Sessions : CancelDone(s)
  \/ \E s \in Sessions : Timeout(s)
  \/ cancel

Spec == Init /\ [][Next]_vars

TypeOK == \A s \in Sessions : ses[s].pc \in { "free", "read", "prompt", "move", "render", "await", "cancelR", "cancelV", "done" }

(***************************************************************************)
(* Observations used by the properties.                                    *)
(***************************************************************************)
\* the marker handles of session s among shown
MarkersIn(shown, s) == { h \in shown : h[1] = s }

HasCall(cs, op) == \E i \in DOMAIN cs : cs[i].op = op

MovesTo(cs, pos) == \E i \in DOMAIN cs : cs[i].op = "cursor" /\ cs[i].arg = pos

EscSent(cs) == \E i \in DOMAIN cs : cs[i].op = "command" /\ cs[i].arg = << "call feedkeys(<esc>, 'in')" >>

\* pos is where an occurrence of the search character of call r starts, inside the
\* part of the viewport that r scans
IsOccurrence(r, pos) ==
  /\ pos[1] \in w0 .. Len(Buffer)
  /\ \E j \in 0 .. Len(Buffer[pos[1]]) - 1 :
       /\ byteIndex(Buffer[pos[1]], j) + 1 = pos[2]
       /\ Buffer[pos[1]][j + 1] = r.ch
       /\ IF r.fwd
            THEN pos[1] - 1 > r.cursor[1] \/ (pos[1] - 1 = r.cursor[1] /\ j > r.cursor[2])
            ELSE pos[1] - 1 < r.cursor[1] \/ (pos[1] - 1 = r.cursor[1] /\ j < r.cursor[2])

\* session s is over: its key capture was answered, or its timer ran first
Closed(s) == (ses[s].pc = "done" /\ ses[s].finished) \/ TimedOut(ses[s])

\* the calls of jump() that a step starts
Started == { n \in Sessions : ses[n].pc = "free" /\ ses'[n].pc # "free" }

(***************************************************************************)
(* C1: once the timer of a session has fired and resolved it, the answer   *)
(* of its key capture is ignored: no cursor move, no marker clear, no new  *)
(* jump.                                                                   *)
(***************************************************************************)
C1_LateCaptureIgnored ==
  [][ \A s \in Sessions :
        /\ \A key \in Keys :
             (TimedOut(ses[s]) /\ Capture(s, key)) =>
               /\ ~HasCall(CaptureCalls(s, key), "cursor")
               /\ ~HasCall(CaptureCalls(s, key), "coc#util#clearmatches")
               /\ hostCursor' = hostCursor
               /\ Started = {}
        /\ (TimedOut(ses[s]) /\ CancelDone(s)) =>
             /\ ~HasCall(CancelDoneCalls(s), "cursor")
             /\ hostCursor' = hostCursor
             /\ Started = {}
    ]_vars

(***************************************************************************)
(* C2: at most one session awaits a label key; a jump called while a       *)
(* session awaits has the markers of that session cleared before it scans  *)
(* or renders.                                                             *)
(***************************************************************************)
C2_SingleAwaiting ==
  /\ Cardinality({ s \in Sessions : ses[s].pc = "await" }) <= 1
  /\ \A s \in Sessions :
       ses[s].pc \in { "move", "render", "await", "cancelR", "cancelV" } =>
         \A t \in ses[s].old : MarkersIn(rendered, t) = {}

(***************************************************************************)
(* C3: when the timer of an awaiting session fires first, it sends the     *)
(* synthetic escape, the markers of the session are cleared, and the       *)
(* session issues no cursor move, neither then nor afterwards.             *)
(***************************************************************************)
C3_TimeoutCancels ==
  [][ \A s \in Sessions :
        /\ (Timeout(s) /\ ses[s].pc = "await" /\ ~Defused(ses[s])) =>
             /\ EscSent(TimeoutCalls(s))
             /\ MarkersIn(rendered', s) = {}
             /\ ~HasCall(TimeoutCalls(s), "cursor")
             /\ hostCursor' = hostCursor
        /\ \A key \in Keys :
             (TimedOut(ses[s]) /\ Capture(s, key)) =>
               (~HasCall(CaptureCalls(s, key), "cursor") /\ ses'[s].pc = "done")
    ]_vars

(***************************************************************************)
(* C4: after cancel() no marker handle is held and the Label Table is      *)
(* empty; with no session active cancel() does nothing.                    *)
(***************************************************************************)
C4_CancelClearsAll ==
  [][ cancel =>
        /\ matchIds' = <<>>
        /\ DOMAIN positionMap' = {}
        /\ Quiet => CancelCalls(matchIds) = <<>>
    ]_vars

(***************************************************************************)
(* C5: once a session is over none of its markers is on screen, and no     *)
(* handle is held when no session is open.                                 *)
(***************************************************************************)
C5_NoMarkerLeft ==
  /\ \A s \in Sessions : Closed(s) => MarkersIn(rendered, s) = {}
  /\ (Awaiting = {}) => matchIds = <<>>

(***************************************************************************)
(* C6: a key of the Label Table of the awaiting session clears the markers *)
(* of that session and then moves the cursor to the position of the        *)
(* candidate that got this label, an occurrence of the search character in *)
(* the scanned part of the viewport.                                       *)
(***************************************************************************)
C6_LabelKeyMoves ==
  [][ \A s \in Sessions :
        /\ \A key \in Keys :
             (Capture(s, key) /\ ~TimedOut(ses[s]) /\ key \in DOMAIN ses[s].tbl) =>
               LET target == ses[s].tbl[key].position
               IN  /\ IsOccurrence(ses[s], target)
                   /\ MarkersIn(rendered', s) = {}
                   /\ IF ses'[s].pc = "cancelV"
                        THEN ses'[s].val = target
                        ELSE MovesTo(CaptureCalls(s, key), target) /\ hostCursor' = target
        /\ (CancelDone(s) /\ ~TimedOut(ses[s]) /\ ses[s].pc = "cancelV"
              /\ ses[s].val # Undef) =>
             /\ CancelDoneCalls(s) = << Call("cursor", ses[s].val) >>
             /\ hostCursor' = ses[s].val
    ]_vars

(***************************************************************************)
(* C7: the repeat key in a session with a non-empty Remainder List clears  *)
(* the markers, moves the cursor to the first remainder position of that   *)
(* session and starts a jump with the search character and the direction   *)
(* of that session.                                                        *)
(***************************************************************************)
Followed(r, cs) ==
  /\ MovesTo(cs, r.remains[1])
  /\ hostCursor' = r.remains[1]
  /\ \E n \in Started :
       /\ ses'[n].pc = "read"
       /\ ses'[n].fwd = r.fwd
       /\ ses'[n].ch = r.ch

C7_RepeatKeyContinues ==
  [][ \A s \in Sessions :
        /\ (Capture(s, ";") /\ ~TimedOut(ses[s]) /\ ses[s].remains # <<>>) =>
             /\ MarkersIn(rendered', s) = {}
             /\ \/ ses'[s].pc = "cancelR"
                \/ Followed(ses[s], CaptureCalls(s, ";"))
        /\ (CancelDone(s) /\ ~TimedOut(ses[s]) /\ ses[s].pc = "cancelR"
              /\ ses[s].remains # <<>>) =>
             Followed(ses[s], CancelDoneCalls(s))
    ]_vars

(***************************************************************************)
(* C8: the label assignment gives the i-th candidate (from 0) the i-th of  *)
(* the 38 symbols for i < 38 and puts the candidates from the 38th on into *)
(* the Remainder List, in order; no candidate is both labelled and in the  *)
(* Remainder List.                                                         *)
(***************************************************************************)
C8_LabelAssignment ==
  [][ \A s \in Sessions, failAt \in FailPoints :
        (ses[s].pc = "move" /\ ses'[s].pc = "render" /\ MoveDone(s, failAt)) =>
          LET r    == ses[s]
              N    == Len(r.positions)
              A    == Len(characters)
              M    == IF N <= A THEN N ELSE A
              abs  == [ i \in 1 .. N |-> AbsPos(r.fwd, r.cursor, r.positions[i]) ]
              P(i) == abs[i + 1]
              rem  == ses'[s].remains
          IN  /\ A = 38
              /\ DOMAIN positionMap' = { characters[i + 1] : i \in 0 .. M - 1 }
              /\ \A i \in 0 .. M - 1 :
                   /\ positionMap'[characters[i + 1]].position = P(i)
                   /\ positionMap'[characters[i + 1]].character = characters[i + 1]
              /\ Cardinality(DOMAIN positionMap') = M
              /\ Len(rem) = N - M
              /\ \A i \in M .. N - 1 : rem[i - M + 1] = P(i)
              /\ Cardinality({ P(i) : i \in 0 .. N - 1 }) = N
              /\ repeatPosition' = (IF N > A THEN P(A) ELSE Undef)
    ]_vars

\* a batch was labelled that has more candidates than symbols
C8_Witness ==
  \E s \in Sessions :
    /\ ses[s].pc = "render"
    /\ Len(ses[s].positions) > Len(characters)
    /\ Len(ses[s].remains) >= 1
    /\ positionMap = ses[s].tbl
    /\ Cardinality(DOMAIN positionMap) = Len(characters)

(***************************************************************************)
(* C9: with jumpOnTrigger the first candidate in scan order is used for an *)
(* immediate cursor move and gets neither a label nor a remainder marker;  *)
(* the labels go to the candidates after it, from the first symbol on.     *)
(***************************************************************************)
C9_FirstCandidateConsumed ==
  [][ \A s \in Sessions :
        jumpOnTrigger =>
          LET r     == ses'[s]
              C     == Candidates(r.fwd, r.ch, r.cursor)
              first == AbsPos(r.fwd, r.cursor, C[1])
          IN  /\ (r.pc = "move" /\ ReadDone(s, FALSE)) =>
                   /\ ReadDoneCalls(s, FALSE) = << Call("cursor", first) >>
                   /\ hostCursor' = first
                   /\ r.currpos = first
                   /\ r.positions = Tail(C)
              /\ \A c \in SearchChars :
                   (r.pc = "move" /\ PromptDone(s, c)) =>
                     /\ PromptDoneCalls(s, c) = << Call("cursor", first) >>
                     /\ hostCursor' = first
                     /\ r.currpos = first
                     /\ r.positions = Tail(C)
              /\ \A failAt \in FailPoints :
                   (r.pc = "render" /\ ses[s].pc = "move" /\ MoveDone(s, failAt)) =>
                     LET cs == MoveDoneCalls(s, failAt)
                     IN  /\ Len(C) >= 2
                         /\ \A k \in DOMAIN positionMap' : positionMap'[k].position # first
                         /\ \A j \in DOMAIN r.remains : r.remains[j] # first
                         /\ \A i \in DOMAIN cs :
                              (cs[i].op = "matchaddpos" /\ cs[i].arg[1] = "Conceal") =>
                                cs[i].arg[2] # first
                         /\ positionMap'[characters[1]].position = AbsPos(r.fwd, r.cursor, C[2])
    ]_vars

\* labels were assigned after the first candidate was consumed
C9_Witness ==
  /\ jumpOnTrigger
  /\ \E s \in Sessions :
       /\ ses[s].pc = "render"
       /\ ses[s].remains # <<>>
       /\ positionMap = ses[s].tbl
       /\ hostCursor = ses[s].currpos

Silent(s, cs) ==
  /\ cs = <<>>
  /\ hostCursor' = hostCursor
  /\ rendered' = rendered
  /\ positionMap' = positionMap
  /\ matchIds' = matchIds
  /\ repeatPosition' = repeatPosition
  /\ ses'[s].pc = "done"
  /\ ses'[s].timer = "off"

C11_EmptyIsNoOp ==
  [][ \A s \in Sessions :
        /\ (ses[s].pc = "read" /\ ses[s].ch # NoChar
              /\ Len(Candidates(ses[s].fwd, ses[s].ch, ses[s].cursor)) = 0
              /\ ReadDone(s, FALSE)) =>
             Silent(s, ReadDoneCalls(s, FALSE))
        /\ \A c \in SearchChars :
             (ses[s].pc = "prompt"
                /\ Len(Candidates(ses[s].fwd, c, ses[s].cursor)) = 0
                /\ PromptDone(s, c)) =>
               Silent(s, PromptDoneCalls(s, c))
    ]_vars

\* a backward jump from the first column of the top line has returned without a trace
C11_Witness ==
  /\ ses[1].pc = "done"
  /\ \A s \in Sessions \ { 1 } : ses[s].pc = "free"
  /\ character # NoChar
  /\ Len(Candidates(isForward, character, CocCursor(hostCursor))) = 0
  /\ ~ses[1].finished
  /\ ses[1].timer = "off"
  /\ rendered = {}
  /\ DOMAIN positionMap = {}

(***************************************************************************)
(* C12: when the read batch or the marker batch of a jump reports an       *)
(* error, the jump aborts, a message is shown to the user, no marker of    *)
(* the jump is on screen and no key capture is started.                    *)
(***************************************************************************)
Aborted(s, cs) ==
  /\ HasCall(cs, "showMessage")
  /\ ~HasCall(cs, "coc#list#getchar")
  /\ ses'[s].pc = "done"
  /\ ses'[s].timer = "off"
  /\ MarkersIn(rendered', s) = {}

C12_BatchErrorReported ==
  [][ \A s \in Sessions :
        /\ (ses[s].pc = "read" /\ ReadDone(s, TRUE)) => Aborted(s, ReadDoneCalls(s, TRUE))
        /\ (ses[s].pc = "render" /\ ses[s].err /\ RenderDone(s)) =>
             Aborted(s, RenderDoneCalls(s))
    ]_vars

(***************************************************************************)
(* C13: cancel() called again right after cancel() sends no call to the    *)
(* host and leaves the state as the first call left it.                    *)
(***************************************************************************)
C13_CancelIdempotent ==
  [][ cancel =>
        /\ CancelCalls(matchIds') = <<>>
        /\ CancelIds(matchIds') = matchIds'
        /\ CancelMap(positionMap') = positionMap'
        /\ HostRendered(rendered', CancelCalls(matchIds'), 0) = rendered'
    ]_vars

\* cancel() has cleared the markers of the only session, which still awaits its key
C13_Witness ==
  /\ ses[1].pc = "await"
  /\ ses[1].timer = "armed"
  /\ \A s \in Sessions \ { 1 } : ses[s].pc = "free"
  /\ Len(ses[1].ids) > 0
  /\ matchIds = <<>>
  /\ rendered = {}

(***************************************************************************)
(* C14: when a key capture is resolved, the stored repeat position is the  *)
(* first entry of the Remainder List built for the same session, or        *)
(* undefined when that session had no overflow.                            *)
(***************************************************************************)
C14_RepeatPositionOwn ==
  [][ \A s \in Sessions :
        /\ \A key \in Keys :
             (ses[s].pc = "await" /\ Capture(s, key)) =>
               repeatPosition = FirstOf(ses[s].remains)
        /\ (ses[s].pc = "cancelR" /\ CancelDone(s)) =>
             repeatPosition = FirstOf(ses[s].remains)
    ]_vars

(***************************************************************************)
(* C15: when the key capture of a session was answered before its timer    *)
(* ran, the timer does nothing when it runs: no escape is sent and         *)
(* cancel() is not run, whatever other session is open by then.            *)
(***************************************************************************)
C15_TimerDefused ==
  [][ \A s \in Sessions :
        (ses[s].timer = "armed" /\ ses[s].finished /\ Timeout(s)) =>
          /\ TimeoutCalls(s) = <<>>
          /\ rendered' = rendered
          /\ matchIds' = matchIds
          /\ positionMap' = positionMap
          /\ hostCursor' = hostCursor
    ]_vars

\* the timer of a session has run after its key was answered (the session is still in
\* the cancel() it awaits) while another session shows its markers and awaits a key
C15_Witness ==
  \E s, n \in Sessions :
    /\ s # n
    /\ ses[s].pc \in { "cancelR", "cancelV" }
    /\ ses[s].finished
    /\ ses[s].timer = "off"
    /\ ses[n].pc = "await"
    /\ Len(matchIds) > 0
    /\ MarkersIn(rendered, n) # {}

(***************************************************************************)
(* C16: a backward jump scans the viewport lines from the top through the  *)
(* cursor line, the cursor line cut to the text before the cursor column,  *)
(* and takes the candidates in reversed order: the match nearest to the    *)
(* cursor comes first (it is consumed by jumpOnTrigger or labelled with    *)
(* the first symbol) and every further candidate is further away.          *)
(***************************************************************************)
\* p is before q in reading order, both <<line, byte column>>
Before(p, q) == p[1] < q[1] \/ (p[1] = q[1] /\ p[2] < q[2])

\* the host position of the 0-based [line, character] cursor of coc#util#cursor
CursorPos(cursor) == << cursor[1] + 1, byteIndex(Buffer[cursor[1] + 1], cursor[2]) + 1 >>

C16_BackwardNearestFirst ==
  \A s \in Sessions :
    (ses[s].pc \in { "move", "render" } /\ ~ses[s].fwd) =>
      LET r     == ses[s]
          top   == r.cursor[1] + 1
          sub   == SubLines(FALSE, r.cursor)
          C     == Candidates(FALSE, r.ch, r.cursor)
          abs   == [ i \in 1 .. Len(C) |-> AbsPos(FALSE, r.cursor, C[i]) ]
          first == IF jumpOnTrigger THEN 2 ELSE 1
      IN  /\ Len(sub) = top - w0 + 1
          /\ \A i \in 1 .. Len(sub) - 1 : sub[i] = Buffer[w0 + i - 1]
          /\ sub[Len(sub)] = SubSeq(Buffer[top], 1, r.cursor[2])
          /\ Len(C) >= 1
          /\ Before(abs[1], CursorPos(r.cursor))
          /\ \A i \in 1 .. Len(C) - 1 : Before(abs[i + 1], abs[i])
          /\ \A i \in 1 .. Len(C) : abs[i][1] >= w0 /\ IsOccurrence(r, abs[i])
          /\ jumpOnTrigger => (r.currpos = abs[1] /\ r.positions = Tail(C))
          /\ ~jumpOnTrigger => r.positions = C
          /\ r.pc = "render" =>
               /\ r.tbl[characters[1]].position = abs[first]
               /\ \A i \in first .. Len(C) :
                    i - first < Len(characters) =>
                      r.tbl[characters[i - first + 1]].position = abs[i]
               /\ \A j \in DOMAIN r.remains :
                    r.remains[j] = abs[first - 1 + Len(characters) + j]

\* a backward jump over two lines has labelled its candidates and has a remainder
C16_Witness ==
  \E s \in Sessions :
    /\ ses[s].pc = "render"
    /\ ~ses[s].fwd
    /\ ses[s].cursor[1] + 1 > w0
    /\ ses[s].cursor[2] > 0
    /\ Len(ses[s].remains) >= 1
    /\ ses[s].tbl[characters[1]].position[1] = ses[s].cursor[1] + 1
    /\ ses[s].remains[1][1] < ses[s].cursor[1] + 1

(***************************************************************************)
(* C17: the timer of a session clears only markers of that session, and    *)
(* sends no escape while the key capture of another session is pending.    *)
(***************************************************************************)
C17_TimerOwnMarkers ==
  [][ \A s \in Sessions :
        (ses[s].timer = "armed" /\ Timeout(s)) =>
          \A n \in Sessions \ { s } :
            /\ MarkersIn(rendered', n) = MarkersIn(rendered, n)
            /\ EscSent(TimeoutCalls(s)) => ses[n].pc # "await"
    ]_vars

(***************************************************************************)
(* C18: the session-entered and session-left notifications alternate,      *)
(* starting with session-entered: no session-left without a session-       *)
(* entered still open, no two session-entered without a session-left       *)
(* between them.                                                           *)
(***************************************************************************)
C18_EnterLeaveAlternate ==
  [][ /\ (\E s \in Sessions, failAt \in FailPoints :
            ses[s].pc = "move" /\ MoveDone(s, failAt) /\ Entered(MoveDoneCalls(s, failAt)))
           => lastUser # "SmartfEnter"
      /\ (\/ \E s \in Sessions, key \in Keys :
               ses[s].pc = "await" /\ Capture(s, key) /\ Left(CaptureCalls(s, key))
          \/ \E s \in Sessions : ses[s].timer = "armed" /\ Timeout(s) /\ Left(TimeoutCalls(s))
          \/ cancel /\ Left(CancelCalls(matchIds)))
           => lastUser = "SmartfEnter"
    ]_vars

(***************************************************************************)
(* C19: repeat and repeatOpposite called with a stored search character    *)
(* do not prompt and leave the stored character and direction unchanged;   *)
(* only a jump that prompts changes them, so repeatOpposite always scans   *)
(* opposite to the last prompted jump.                                     *)
(***************************************************************************)
\* the step starts one call of jump() with this direction and the stored character
Reuses(fwd) ==
  /\ isForward' = isForward
  /\ character' = character
  /\ \E n \in Started :
       /\ Started = { n }
       /\ ses'[n].fwd = fwd
       /\ ses'[n].ch = character

C19_RepeatKeepsStored ==
  [][ /\ (character # NoChar /\ repeat) => Reuses(isForward)
      /\ (character # NoChar /\ repeatOpposite) => Reuses(~isForward)
      /\ \A s \in Sessions, err \in BOOLEAN :
           (ses[s].pc = "read" /\ ses[s].ch # NoChar /\ ReadDone(s, err)) =>
             /\ ~HasCall(ReadDoneCalls(s, err), "coc#list#getchar")
             /\ ses'[s].pc # "prompt"
      /\ (isForward' # isForward \/ character' # character) =>
           \E s \in Sessions, c \in SearchChars :
             /\ ses[s].pc = "prompt"
             /\ ses[s].ch = NoChar
             /\ PromptDone(s, c)
    ]_vars

\* the third call in a row is a repeatOpposite: it scans against the stored direction
C19_Witness ==
  /\ serial
  /\ ses[1].pc = "done"
  /\ ses[2].pc = "done"
  /\ ses[3].pc \in { "move", "render" }
  /\ character # NoChar
  /\ ses[3].ch = character
  /\ ses[3].fwd = ~isForward

(***************************************************************************)
(* C20: with jumpOnTrigger and exactly one candidate the cursor is moved   *)
(* to that candidate and the jump ends: no label, no marker, no session-   *)
(* entered notification, no key capture, no timer, and the Label Table is  *)
(* left empty.                                                             *)
(***************************************************************************)
\* the one candidate of session record r, as a host position
OnlyCandidate(r, c) == AbsPos(r.fwd, r.cursor, Candidates(r.fwd, c, r.cursor)[1])

C20_SingleCandidateJump ==
  [][ \A s \in Sessions :
        jumpOnTrigger =>
          /\ (ses[s].pc = "read" /\ ses[s].ch # NoChar
                /\ Len(Candidates(ses[s].fwd, ses[s].ch, ses[s].cursor)) = 1
                /\ ReadDone(s, FALSE)) =>
               /\ ReadDoneCalls(s, FALSE) = << Call("cursor", OnlyCandidate(ses[s], ses[s].ch)) >>
               /\ hostCursor' = OnlyCandidate(ses[s], ses[s].ch)
               /\ ses'[s].positions = <<>>
          /\ \A c \in SearchChars :
               (ses[s].pc = "prompt"
                  /\ Len(Candidates(ses[s].fwd, c, ses[s].cursor)) = 1
                  /\ PromptDone(s, c)) =>
                 /\ PromptDoneCalls(s, c) = << Call("cursor", OnlyCandidate(ses[s], c)) >>
                 /\ hostCursor' = OnlyCandidate(ses[s], c)
                 /\ ses'[s].positions = <<>>
          /\ (ses[s].pc = "move" /\ Len(ses[s].positions) = 0 /\ MoveDone(s, 0)) =>
               /\ MoveDoneCalls(s, 0) = <<>>
               /\ rendered' = rendered
               /\ lastUser' = lastUser
               /\ matchIds' = matchIds
               /\ hostCursor' = hostCursor
               /\ positionMap' = positionMap
               /\ DOMAIN positionMap' = {}
               /\ ses'[s].pc = "done"
               /\ ses'[s].timer = "off"
    ]_vars

====
